---- MODULE Spec2Model ----
(***************************************************************************)
(* Model of the thumbnail handler of main.go: paramExtract, paramValidate, *)
(* generateThumbFromFile, generateThumbFromPipe and thumbHandler.           *)
(*                                                                         *)
(* Go strings are sequences of one-character strings, so that splitting,   *)
(* lower-casing and the regular expression of paramExtract are computed    *)
(* character by character.  A []byte is a record [nil, bytes]: Go tells a  *)
(* nil slice from an empty one (thumbHandler tests out == nil).            *)
(***************************************************************************)
EXTENDS Integers, Sequences, FiniteSets, TLC

VARIABLES pc, uri, parseErr, params, validateErr, strategy, defers, rcOpen,
          metadata, tmp, cmdOut, out, err, resp, ops, tempFiles

vars == <<pc, uri, parseErr, params, validateErr, strategy, defers, rcOpen,
          metadata, tmp, cmdOut, out, err, resp, ops, tempFiles>>

(***************************************************************************)
(* Characters and strings.                                                 *)
(***************************************************************************)
Digits == {"0", "1", "2", "3", "4", "5", "6", "7", "8", "9"}

LowerLetters ==
    {"a", "b", "c", "d", "e", "f", "g", "h", "i", "j", "k", "l", "m",
     "n", "o", "p", "q", "r", "s", "t", "u", "v", "w", "x", "y", "z"}

UpperLetters ==
    {"A", "B", "C", "D", "E", "F", "G", "H", "I", "J", "K", "L", "M",
     "N", "O", "P", "Q", "R", "S", "T", "U", "V", "W", "X", "Y", "Z"}

\* The character class [0-9a-zA-Z-_.] of the bucket and wiki segments.
SegmentClass == Digits \cup LowerLetters \cup UpperLetters \cup {"-", "_", "."}

HexDigits == Digits \cup {"a", "b", "c", "d", "e", "f", "A", "B", "C", "D", "E", "F"}

\* strings.ToLower on one character: ASCII upper-case letters are mapped,
\* every other character is kept.
LowerChar(c) ==
    CASE c = "A" -> "a" [] c = "B" -> "b" [] c = "C" -> "c" [] c = "D" -> "d"
      [] c = "E" -> "e" [] c = "F" -> "f" [] c = "G" -> "g" [] c = "H" -> "h"
      [] c = "I" -> "i" [] c = "J" -> "j" [] c = "K" -> "k" [] c = "L" -> "l"
      [] c = "M" -> "m" [] c = "N" -> "n" [] c = "O" -> "o" [] c = "P" -> "p"
      [] c = "Q" -> "q" [] c = "R" -> "r" [] c = "S" -> "s" [] c = "T" -> "t"
      [] c = "U" -> "u" [] c = "V" -> "v" [] c = "W" -> "w" [] c = "X" -> "x"
      [] c = "Y" -> "y" [] c = "Z" -> "z" [] OTHER -> c

ToLower(s) == [i \in 1..Len(s) |-> LowerChar(s[i])]

\* The least index i >= from with s[i] = c, or 0 when there is none.
IndexFrom(s, c, from) ==
    LET hits == {i \in from..Len(s) : s[i] = c}
    IN  IF hits = {} THEN 0 ELSE CHOOSE i \in hits : \A j \in hits : i <= j

\* The greatest index i with s[i] = c, or 0 when there is none.
LastIndex(s, c) ==
    LET hits == {i \in 1..Len(s) : s[i] = c}
    IN  IF hits = {} THEN 0 ELSE CHOOSE i \in hits : \A j \in hits : j <= i

HasPrefix(s, p) == Len(s) >= Len(p) /\ SubSeq(s, 1, Len(p)) = p

From(s, i) == SubSeq(s, i, Len(s))

\* s := strings.Split(strings.ToLower(name), "."); the extension is the
\* last piece when there are at least two pieces, and "" otherwise.
ExtOf(name) ==
    LET low == ToLower(name)
        dot == LastIndex(low, ".")
    IN  IF dot = 0 THEN <<>> ELSE From(low, dot + 1)

(***************************************************************************)
(* url.ParseRequestURI, for request targets without a scheme: the query is *)
(* cut at the first "?", the rest must start with "/", and its percent     *)
(* escapes are decoded into Path; a "%" not followed by two hex digits is  *)
(* an error.                                                               *)
(***************************************************************************)
HexVal(c) ==
    CASE c \in Digits -> CHOOSE n \in 0..9 : <<"0", "1", "2", "3", "4", "5", "6", "7", "8", "9">>[n + 1] = c
      [] c \in {"a", "A"} -> 10 [] c \in {"b", "B"} -> 11 [] c \in {"c", "C"} -> 12
      [] c \in {"d", "D"} -> 13 [] c \in {"e", "E"} -> 14 [] c \in {"f", "F"} -> 15

\* The characters of the code points the escapes of the modelled requests denote.
CharOfCode(n) ==
    CASE n = 45 -> "-" [] n = 46 -> "." [] n = 47 -> "/" [] n = 48 -> "0" [] n = 49 -> "1"

ValidEscapes(s) ==
    \A i \in 1..Len(s) :
        s[i] = "%" => /\ i + 2 <= Len(s)
                      /\ s[i + 1] \in HexDigits
                      /\ s[i + 2] \in HexDigits

RECURSIVE Unescape(_)
Unescape(s) ==
    IF s = <<>> THEN <<>>
    ELSE IF Head(s) = "%"
         THEN <<CharOfCode(16 * HexVal(s[2]) + HexVal(s[3]))>> \o Unescape(From(s, 4))
         ELSE <<Head(s)>> \o Unescape(Tail(s))

\* rest, url.RawQuery, _ = strings.Cut(rest, "?")
CutQuery(rawURL, q) == IF q = 0 THEN rawURL ELSE SubSeq(rawURL, 1, q - 1)

ParsePath(rawURL, rest) ==
    IF rawURL = <<>> \/ ~HasPrefix(rest, <<"/">>) \/ ~ValidEscapes(rest)
    THEN [ok |-> FALSE, Path |-> <<>>]
    ELSE [ok |-> TRUE, Path |-> Unescape(rest)]

ParseRequestURI(rawURL) ==
    CHOOSE u \in {ParsePath(rawURL, rest) :
                    rest \in {CutQuery(rawURL, IndexFrom(rawURL, "?", 1))}} : TRUE

\* The regular expression of paramExtract,
\*   ^/([0-9a-zA-Z-_.]+)/([0-9a-zA-Z-_.]+)/thumb/((?:archive|temp)/)?([^/]*)/(([0-9]+)px-.+)$
\* matched leftmost-first as Go's regexp does: the optional archive/ or temp/
\* group is taken when the rest then matches, and skipped otherwise.  Every
\* other group is forced: a segment ends at the next "/", the width is the
\* whole run of digits before "px-".
\* A value computed once and then used several times is bound as the one
\* element of a set: CHOOSE x \in {F(v) : v \in {value}} : TRUE is F(value).
NoMatch == [ok |-> FALSE]

S_thumb   == <<"t", "h", "u", "m", "b", "/">>
S_archive == <<"a", "r", "c", "h", "i", "v", "e", "/">>
S_temp    == <<"t", "e", "m", "p", "/">>
S_px      == <<"p", "x", "-">>

\* The number of leading digits of t.
DigitRun(t) ==
    LET stops == {i \in 1..Len(t) : t[i] \notin Digits}
    IN  IF stops = {} THEN Len(t)
        ELSE (CHOOSE i \in stops : \A j \in stops : i <= j) - 1

\* (([0-9]+)px-.+)$ on the thumbnail name: "." matches all but a newline.
ThumbNameWithWidth(t, k) ==
    IF /\ k >= 1
       /\ HasPrefix(From(t, k + 1), S_px)
       /\ Len(t) >= k + 4
       /\ \A i \in (k + 4)..Len(t) : t[i] # "\n"
    THEN [ok |-> TRUE, m5 |-> t, m6 |-> SubSeq(t, 1, k)]
    ELSE NoMatch

MatchThumbName(t) ==
    CHOOSE m \in {ThumbNameWithWidth(t, k) : k \in {DigitRun(t)}} : TRUE

\* The file name, "/" and the thumbnail name, on what follows the optional group m3.
TailWithName(rest, m3, slash, name) ==
    IF ~name.ok THEN NoMatch
    ELSE [ok |-> TRUE, m3 |-> m3, m4 |-> SubSeq(rest, 1, slash - 1),
          m5 |-> name.m5, m6 |-> name.m6]

TailAtSlash(rest, m3, slash) ==
    IF slash = 0 THEN NoMatch
    ELSE CHOOSE m \in {TailWithName(rest, m3, slash, name) :
                         name \in {MatchThumbName(From(rest, slash + 1))}} : TRUE

MatchTail(rest, m3) ==
    CHOOSE m \in {TailAtSlash(rest, m3, slash) : slash \in {IndexFrom(rest, "/", 1)}} : TRUE

\* The tail with the optional group taken as the literal lit.
MatchWithGroup(rest, lit) ==
    IF HasPrefix(rest, lit) THEN MatchTail(From(rest, Len(lit) + 1), lit) ELSE NoMatch

FirstMatch(withArchive, withTemp, rest) ==
    IF withArchive.ok THEN withArchive
    ELSE IF withTemp.ok THEN withTemp
    ELSE MatchTail(rest, <<>>)

MatchAfterThumb(rest) ==
    CHOOSE m \in {FirstMatch(a, t, rest) : a \in {MatchWithGroup(rest, S_archive)},
                                          t \in {MatchWithGroup(rest, S_temp)}} : TRUE

SubmatchWithTail(m1, m2, tail) ==
    IF /\ \A i \in 1..Len(m1) : m1[i] \in SegmentClass
       /\ \A i \in 1..Len(m2) : m2[i] \in SegmentClass
       /\ tail.ok
    THEN [ok |-> TRUE, m1 |-> m1, m2 |-> m2, m3 |-> tail.m3, m4 |-> tail.m4,
          m5 |-> tail.m5, m6 |-> tail.m6]
    ELSE NoMatch

\* s1 and s2 are the places of the second and the third "/" of the path.
SubmatchAtSlashes(path, s1, s2) ==
    IF /\ HasPrefix(path, <<"/">>)
       /\ s1 > 2
       /\ s2 > s1 + 1
       /\ HasPrefix(From(path, s2 + 1), S_thumb)
    THEN CHOOSE m \in {SubmatchWithTail(SubSeq(path, 2, s1 - 1),
                                         SubSeq(path, s1 + 1, s2 - 1), tail) :
                         tail \in {MatchAfterThumb(From(path, s2 + 1 + Len(S_thumb)))}} : TRUE
    ELSE NoMatch

SecondSlash(path, s1) == IF s1 = 0 THEN 0 ELSE IndexFrom(path, "/", s1 + 1)

FindStringSubmatch(path) ==
    CHOOSE m \in {SubmatchAtSlashes(path, s1, s2) :
                    <<s1, s2>> \in {<<i, SecondSlash(path, i)>> :
                                        i \in {IndexFrom(path, "/", 2)}}} : TRUE

(***************************************************************************)
(* paramExtract and paramValidate.                                         *)
(***************************************************************************)
MEDIA_IMAGE   == "image"
MEDIA_UNKNOWN == "unknown"
MEDIA_VIDEO   == "video"

E_png  == <<"p", "n", "g">>
E_gif  == <<"g", "i", "f">>
E_jpg  == <<"j", "p", "g">>
E_jpeg == <<"j", "p", "e", "g">>
E_webp == <<"w", "e", "b", "p">>
E_mp4  == <<"m", "p", "4">>
E_ogg  == <<"o", "g", "g">>
E_ogv  == <<"o", "g", "v">>
E_webm == <<"w", "e", "b", "m">>

ImageExts == {E_png, E_gif, E_jpg, E_jpeg, E_webp}
VideoExts == {E_mp4, E_ogg, E_ogv, E_webm}

MediaTypeOf(fileExt) ==
    IF fileExt \in ImageExts THEN MEDIA_IMAGE
    ELSE IF fileExt \in VideoExts THEN MEDIA_VIDEO
    ELSE MEDIA_UNKNOWN

\* ThumbParams{}: the zero value returned beside an error.
ZeroParams ==
    [Bucket |-> <<>>, FileExt |-> <<>>, FilePath |-> <<>>, MediaType |-> "",
     ThumbExt |-> <<>>, ThumbPath |-> <<>>, Width |-> <<>>]

\* The error values: "" is nil.
NoError           == ""
ErrUnparsable     == "Unparsable URI"
ErrBadThumbURI    == "Bad thumb URI"
ErrUnsupportedSrc == "Unsupported source file extension"
ErrUnsupportedDst == "Unsupported thumbnail file extension"

\* The ThumbParams built from the submatches m.
ParamsOfMatch(m) ==
    IF ~m.ok THEN [params |-> ZeroParams, err |-> ErrBadThumbURI]
    ELSE [params |->
            [Bucket    |-> m.m1,
             FileExt   |-> ExtOf(m.m4),
             FilePath  |-> m.m2 \o <<"/">> \o m.m3 \o m.m4,
             MediaType |-> MediaTypeOf(ExtOf(m.m4)),
             ThumbExt  |-> ExtOf(m.m5),
             ThumbPath |-> m.m2 \o <<"/">> \o S_thumb \o m.m3 \o m.m4 \o <<"/">> \o m.m5,
             Width     |-> m.m6],
          err |-> NoError]

ParamsOfURL(u) ==
    IF ~u.ok THEN [params |-> ZeroParams, err |-> ErrUnparsable]
    ELSE CHOOSE e \in {ParamsOfMatch(m) : m \in {FindStringSubmatch(u.Path)}} : TRUE

paramExtract(rawURL) ==
    CHOOSE e \in {ParamsOfURL(u) : u \in {ParseRequestURI(rawURL)}} : TRUE

\* paramValidate without the test of the source's media type.
paramValidateNoSourceCheck(p) ==
    IF p.MediaType = MEDIA_VIDEO /\ p.ThumbExt = E_jpg THEN NoError
    ELSE IF p.ThumbExt = p.FileExt THEN NoError
    ELSE ErrUnsupportedDst

\* paramValidate with the test of the extensions' equality moved first.
paramValidateMatchFirst(p) ==
    IF p.ThumbExt = p.FileExt THEN NoError
    ELSE IF p.MediaType = MEDIA_UNKNOWN THEN ErrUnsupportedSrc
    ELSE IF p.MediaType = MEDIA_VIDEO /\ p.ThumbExt = E_jpg THEN NoError
    ELSE ErrUnsupportedDst

paramValidate(p) ==
    IF p.MediaType = MEDIA_UNKNOWN THEN ErrUnsupportedSrc
    ELSE IF p.MediaType = MEDIA_VIDEO /\ p.ThumbExt = E_jpg THEN NoError
    ELSE IF p.ThumbExt = p.FileExt THEN NoError
    ELSE ErrUnsupportedDst

(***************************************************************************)
(* The HTTP response writer: WriteHeader sets the status once, and Write   *)
(* sends status 200 first when no header has been written.                 *)
(***************************************************************************)
StatusOK                  == 200
StatusBadRequest          == 400
StatusNotFound            == 404
StatusInternalServerError == 500

NewResponse == [wroteHeader |-> FALSE, status |-> 0, body |-> <<>>]

WriteHeader(w, code) ==
    IF w.wroteHeader THEN w ELSE [w EXCEPT !.wroteHeader = TRUE, !.status = code]

Write(w, b) ==
    LET h == WriteHeader(w, StatusOK)
    IN  [h EXCEPT !.body = h.body \o b]

(***************************************************************************)
(* Byte slices and errors.                                                 *)
(***************************************************************************)
NilBytes == [nil |-> TRUE, bytes |-> <<>>]

MkBytes(b) == [nil |-> FALSE, bytes |-> b]

\* A nil error, and &ThumbError{Ctx, Err}; Err is "nil" for a nil error.
NilErr == [isNil |-> TRUE, Ctx |-> "", Err |-> "nil"]

ThumbError(ctx, e) == [isNil |-> FALSE, Ctx |-> ctx, Err |-> e]

\* IsNotFound comparing with a context no orchestrator sets.
IsNotFoundOtherTag(e) == e.Ctx = "NotExist"

IsNotFound(e) == e.Ctx = "NotFound"

(***************************************************************************)
(* Bounds and input sets.                                                  *)
(***************************************************************************)
Requests == {"r1", "r2"}

\* The names os.CreateTemp can draw.
MaxTemp == 2
TempNames == {<<"original", i>> : i \in 1..MaxTemp}

\* The standard output of the external tool: up to MaxOutLen bytes.
MaxOutLen == 1
ByteVals == {216, 255}
ToolOutputs == UNION {[1..n -> ByteVals] : n \in 0..MaxOutLen}

\* cmd.Output returns the bytes the tool wrote; whether an empty output is a
\* nil or an empty non-nil slice is left to bytes.Buffer.
OutputSlices == {MkBytes(b) : b \in ToolOutputs} \cup {NilBytes}

\* No temporary file.
NoTemp == <<>>

(***************************************************************************)
(* Request URIs.                                                           *)
(***************************************************************************)
N_a == <<"a">>

FileNames ==
    { N_a \o <<".">> \o E_png,  <<"A", ".", "P", "N", "G">>, N_a \o <<".">> \o E_jpg,
      N_a \o <<".">> \o E_jpeg, N_a \o <<".">> \o E_gif,     N_a \o <<".">> \o E_webp,
      N_a \o <<".">> \o E_mp4,  N_a \o <<".">> \o E_ogg,     N_a \o <<".">> \o E_ogv,
      N_a \o <<".">> \o E_webm, <<"a", ".", "p", "d", "f">>, <<"a", ".", "s", "v", "g">>,
      N_a, <<"a", ".">>, <<>>, <<"a", ".", "j", "p", "g", ".", "p", "n", "g">>,
      <<"a", "r", "c", "h", "i", "v", "e">>, <<"a", "%", "2", "F", "b", ".", "p", "n", "g">>,
      <<"a", "%", "p", "n", "g">> }

ThumbNames ==
    { <<"1", "p", "x", "-">> \o N_a \o <<".">> \o E_png,
      <<"1", "0", "p", "x", "-">> \o N_a \o <<".">> \o E_jpg,
      <<"1", "p", "x", "-">> \o N_a \o <<".">> \o E_jpeg,
      <<"1", "p", "x", "-">> \o N_a \o <<".">> \o E_gif,
      <<"1", "p", "x", "-">> \o N_a \o <<".">> \o E_webp,
      <<"1", "p", "x", "-">> \o N_a \o <<".">> \o E_mp4,
      <<"1", "p", "x", "-">> \o N_a \o <<".">> \o E_ogv,
      <<"1", "p", "x", "-">> \o N_a \o <<".">> \o E_webm,
      <<"1", "p", "x", "-", "a", ".", "p", "d", "f">>,
      <<"1", "p", "x", "-", "a", ".", "J", "P", "G">>,
      <<"1", "p", "x", "-", "a">>,
      <<"1", "p", "x", "-", "a", ".">>,
      <<"1", "p", "x", "-">>,
      <<"0", "p", "x", "-", "a", ".", "p", "n", "g">>,
      <<"0", "0", "p", "x", "-", "a", ".", "j", "p", "g">>,
      <<"%", "3", "1", "p", "x", "-", "a", ".", "p", "n", "g">>,
      <<"p", "x", "-", "a", ".", "p", "n", "g">>,
      <<"1", "x", "-", "a", ".", "p", "n", "g">>,
      <<"a", "p", "x", "-", "a", ".", "p", "n", "g">>,
      <<"1", "p", "x", "-", "l", "/", "a", ".", "j", "p", "g">> }

Leads    == {<<"/">>, <<>>}
Buckets  == {<<"b">>, <<"b", "-", "_", ".", "1">>, <<"b", "~">>, <<>>}
Wikis    == {<<"w">>, <<"w", "+">>}
Markers  == {S_thumb, <<"t", "h", "u", "m", "b", "s", "/">>, <<>>}
Prefixes == {<<>>, S_archive, S_temp, <<"o", "l", "d", "/">>}
Queries  == {<<>>, <<"?", "q">>}

MkURI(lead, bucket, wiki, marker, prefix, file, thumb, query) ==
    lead \o bucket \o <<"/">> \o wiki \o <<"/">> \o marker \o prefix \o file
         \o <<"/">> \o thumb \o query

\* Well-formed requests crossing every file name with every thumbnail name,
\* and malformed ones varying one part of the path at a time.
ParseURIs ==
    { MkURI(<<"/">>, <<"b">>, <<"w">>, S_thumb, pre, f, t, <<>>) :
        pre \in {<<>>, S_archive}, f \in FileNames, t \in ThumbNames }
    \cup
    { MkURI(l, b, w, m, pre, N_a \o <<".">> \o E_png,
            <<"1", "p", "x", "-">> \o N_a \o <<".">> \o E_png, q) :
        l \in Leads, b \in Buckets, w \in Wikis, m \in Markers, pre \in Prefixes,
        q \in Queries }
    \cup {<<>>, <<"/">>}

U(file, thumb) == MkURI(<<"/">>, <<"b">>, <<"w">>, S_thumb, <<>>, file, thumb, <<>>)

\* The requests of the handler specification: one per path through
\* thumbHandler and the two orchestrators.
RequestURIs ==
    { <<"/", "b", "/", "w">>,
      U(N_a \o <<".">> \o E_png,  <<"1", "p", "x", "-">> \o N_a \o <<".">> \o E_png),
      U(N_a \o <<".">> \o E_png,  <<"1", "0", "p", "x", "-">> \o N_a \o <<".">> \o E_jpg),
      U(<<"a", ".", "p", "d", "f">>, <<"1", "p", "x", "-", "a", ".", "p", "d", "f">>),
      U(N_a \o <<".">> \o E_webm, <<"1", "0", "p", "x", "-">> \o N_a \o <<".">> \o E_jpg),
      U(N_a \o <<".">> \o E_mp4,  <<"1", "0", "p", "x", "-">> \o N_a \o <<".">> \o E_jpg),
      U(N_a \o <<".">> \o E_mp4,  <<"1", "p", "x", "-", "a">>) }

(***************************************************************************)
(* thumbHandler, up to the call of an orchestrator.                        *)
(***************************************************************************)
\* A request slot of the HTTP server with no request in it.
Init ==
    /\ pc          = [r \in Requests |-> "idle"]
    /\ uri         = [r \in Requests |-> <<>>]
    /\ parseErr    = [r \in Requests |-> NoError]
    /\ params      = [r \in Requests |-> ZeroParams]
    /\ validateErr = [r \in Requests |-> NoError]
    /\ strategy    = [r \in Requests |-> "none"]
    /\ defers      = [r \in Requests |-> <<>>]
    /\ rcOpen      = [r \in Requests |-> FALSE]
    /\ metadata    = [r \in Requests |-> "none"]
    /\ tmp         = [r \in Requests |-> NoTemp]
    /\ cmdOut      = [r \in Requests |-> NilBytes]
    /\ out         = [r \in Requests |-> NilBytes]
    /\ err         = [r \in Requests |-> NilErr]
    /\ resp        = [r \in Requests |-> NewResponse]
    /\ ops         = [r \in Requests |-> <<>>]
    /\ tempFiles   = {}

\* The server hands a request to thumbHandler.
Receive(r) ==
    /\ pc[r] = "idle"
    /\ \E u \in RequestURIs : uri' = [uri EXCEPT ![r] = u]
    /\ pc' = [pc EXCEPT ![r] = "received"]
    /\ UNCHANGED <<parseErr, params, validateErr, strategy, defers, rcOpen, metadata,
                   tmp, cmdOut, out, err, resp, ops, tempFiles>>

\* if params.FileExt == "mp4" { generateThumbFromFile } else { generateThumbFromPipe }
StrategyOf(p) == IF p.FileExt = E_mp4 THEN "file" ELSE "pipe"

\* thumbHandler without the return after a failed paramValidate.
RejectsOnParseOnly(parseE, validE) == parseE # NoError

\* thumbHandler returns with status 400 when paramExtract or paramValidate fails.
Rejects(parseE, validE) == parseE # NoError \/ validE # NoError

\* thumbHandler from paramExtract to the choice of the orchestrator:
\* status 400 and return when either paramExtract or paramValidate fails.
HandlerEntry(r) ==
    /\ pc[r] = "received"
    /\ \E e \in {paramExtract(uri[r])} :
       \E v \in {IF e.err = NoError THEN paramValidate(e.params) ELSE NoError} :
           /\ parseErr' = [parseErr EXCEPT ![r] = e.err]
           /\ params' = [params EXCEPT ![r] = e.params]
           /\ validateErr' = [validateErr EXCEPT ![r] = v]
           /\ IF Rejects(e.err, v)
              THEN /\ resp' = [resp EXCEPT ![r] = WriteHeader(@, StatusBadRequest)]
                   /\ pc' = [pc EXCEPT ![r] = "done"]
                   /\ UNCHANGED strategy
              ELSE /\ strategy' = [strategy EXCEPT ![r] = StrategyOf(e.params)]
                   /\ pc' = [pc EXCEPT ![r] = "NewClient"]
                   /\ UNCHANGED resp
    /\ UNCHANGED <<uri, defers, rcOpen, metadata, tmp, cmdOut, out, err, ops, tempFiles>>

(***************************************************************************)
(* The orchestrators generateThumbFromFile and generateThumbFromPipe, one  *)
(* action per call of a collaborator.  A failing call sets the returned    *)
(* pair (out, err) and moves to "Return", where the deferred calls run.    *)
(***************************************************************************)
Op(name, ok) == [op |-> name, ok |-> ok]

\* A failing call tried again instead of ending the request.
RetryWith(r, o, e) ==
    /\ out' = [out EXCEPT ![r] = o]
    /\ err' = [err EXCEPT ![r] = e]
    /\ pc' = [pc EXCEPT ![r] = IF e.isNil THEN "Return" ELSE pc[r]]

\* return o, e
ReturnWith(r, o, e) ==
    /\ out' = [out EXCEPT ![r] = o]
    /\ err' = [err EXCEPT ![r] = e]
    /\ pc' = [pc EXCEPT ![r] = "Return"]

\* storage.NewClient; defer client.Close()
NewClient(r) ==
    /\ pc[r] = "NewClient"
    /\ \E ok \in BOOLEAN :
        /\ ops' = [ops EXCEPT ![r] = Append(@, Op("NewClient", ok))]
        /\ IF ok
           THEN /\ defers' = [defers EXCEPT ![r] = Append(@, "client.Close")]
                /\ pc' = [pc EXCEPT ![r] = "NewReader"]
                /\ UNCHANGED <<out, err>>
           ELSE /\ ReturnWith(r, NilBytes, ThumbError("NewClient", "err"))
                /\ UNCHANGED defers
    /\ UNCHANGED <<uri, parseErr, params, validateErr, strategy, rcOpen, metadata, tmp,
                   cmdOut, resp, tempFiles>>

\* srcObj.NewReader; defer rc.Close()
NewReader(r) ==
    /\ pc[r] = "NewReader"
    /\ \E res \in {"ok", "ErrObjectNotExist", "err"} :
        /\ ops' = [ops EXCEPT ![r] = Append(@, Op("NewReader", res = "ok"))]
        /\ IF res = "ok"
           THEN /\ defers' = [defers EXCEPT ![r] = Append(@, "rc.Close")]
                /\ rcOpen' = [rcOpen EXCEPT ![r] = TRUE]
                /\ pc' = [pc EXCEPT ![r] = "Attrs"]
                /\ UNCHANGED <<out, err>>
           ELSE /\ ReturnWith(r, NilBytes,
                              IF res = "ErrObjectNotExist"
                              THEN ThumbError("NotFound", res)
                              ELSE ThumbError("NewReader", res))
                /\ UNCHANGED <<defers, rcOpen>>
    /\ UNCHANGED <<uri, parseErr, params, validateErr, strategy, metadata, tmp, cmdOut,
                   resp, tempFiles>>

\* srcObj.Attrs; metadata := attrs.Metadata
Attrs(r) ==
    /\ pc[r] = "Attrs"
    /\ \E ok \in BOOLEAN :
        /\ ops' = [ops EXCEPT ![r] = Append(@, Op("Attrs", ok))]
        /\ IF ok
           THEN /\ metadata' = [metadata EXCEPT ![r] = "source"]
                /\ pc' = [pc EXCEPT ![r] = IF strategy[r] = "file" THEN "CreateTemp"
                                           ELSE "ReadAll"]
                /\ UNCHANGED <<out, err>>
           ELSE /\ ReturnWith(r, NilBytes, ThumbError("SourceAttrs", "err"))
                /\ UNCHANGED metadata
    /\ UNCHANGED <<uri, parseErr, params, validateErr, strategy, defers, rcOpen, tmp,
                   cmdOut, resp, tempFiles>>

\* generateThumbFromPipe: io.ReadAll(rc)
ReadAll(r) ==
    /\ pc[r] = "ReadAll"
    /\ \E ok \in BOOLEAN :
        /\ ops' = [ops EXCEPT ![r] = Append(@, Op("ReadAll", ok))]
        /\ IF ok
           THEN /\ pc' = [pc EXCEPT ![r] = "Command"]
                /\ UNCHANGED <<out, err>>
           ELSE ReturnWith(r, NilBytes, ThumbError("ReadAll", "err"))
    /\ UNCHANGED <<uri, parseErr, params, validateErr, strategy, defers, rcOpen, metadata,
                   tmp, cmdOut, resp, tempFiles>>

\* os.CreateTemp without the deferred removal.
DefersWithoutRemove(d) == d

\* The deferred calls after os.CreateTemp succeeded: defer os.Remove(f.Name())
DefersAfterCreateTemp(d) == Append(d, "os.Remove")

\* generateThumbFromFile: os.CreateTemp("", "original") creates a file under a
\* name no existing file has, and fails when it finds none.
CreateTemp(r) ==
    /\ pc[r] = "CreateTemp"
    /\ \E n \in (TempNames \ tempFiles) \cup {NoTemp} :
        /\ ops' = [ops EXCEPT ![r] = Append(@, Op("CreateTemp", n # NoTemp))]
        /\ IF n # NoTemp
           THEN /\ tmp' = [tmp EXCEPT ![r] = n]
                /\ tempFiles' = tempFiles \cup {n}
                /\ defers' = [defers EXCEPT ![r] = DefersAfterCreateTemp(@)]
                /\ pc' = [pc EXCEPT ![r] = "CopyTemp"]
                /\ UNCHANGED <<out, err>>
           ELSE /\ ReturnWith(r, NilBytes, ThumbError("CreateTemp", "err"))
                /\ UNCHANGED <<tmp, tempFiles, defers>>
    /\ UNCHANGED <<uri, parseErr, params, validateErr, strategy, rcOpen, metadata,
                   cmdOut, resp>>

\* generateThumbFromFile: io.Copy(f, rc)
CopyTemp(r) ==
    /\ pc[r] = "CopyTemp"
    /\ \E ok \in BOOLEAN :
        /\ ops' = [ops EXCEPT ![r] = Append(@, Op("CopyTemp", ok))]
        /\ IF ok
           THEN /\ pc' = [pc EXCEPT ![r] = "Command"]
                /\ UNCHANGED <<out, err>>
           ELSE ReturnWith(r, NilBytes, ThumbError("Copy", "err"))
    /\ UNCHANGED <<uri, parseErr, params, validateErr, strategy, defers, rcOpen, metadata,
                   tmp, cmdOut, resp, tempFiles>>

\* The tool an orchestrator runs: generateThumbFromFile always runs ffmpeg;
\* generateThumbFromPipe runs vipsthumbnail for an image, ffmpeg for a video,
\* and has no handler for any other media type.
ToolOf(strat, p) ==
    IF strat = "file" THEN "ffmpeg"
    ELSE IF p.MediaType = MEDIA_IMAGE THEN "vipsthumbnail"
    ELSE IF p.MediaType = MEDIA_VIDEO THEN "ffmpeg"
    ELSE "none"

\* out, err := cmd.Output(): the tool's standard output, or nil and an error.
Command(r) ==
    /\ pc[r] = "Command"
    /\ IF ToolOf(strategy[r], params[r]) = "none"
       THEN /\ ReturnWith(r, NilBytes, ThumbError("NoHandler", "nil"))
            /\ UNCHANGED <<ops, cmdOut>>
       ELSE \E ok \in BOOLEAN :
            /\ ops' = [ops EXCEPT ![r] = Append(@, Op("Command", ok))]
            /\ IF ok
               THEN /\ \E o \in OutputSlices : cmdOut' = [cmdOut EXCEPT ![r] = o]
                    /\ pc' = [pc EXCEPT ![r] = "Upload"]
                    /\ UNCHANGED <<out, err>>
               ELSE /\ ReturnWith(r, NilBytes, ThumbError("Command", "err"))
                    /\ UNCHANGED cmdOut
    /\ UNCHANGED <<uri, parseErr, params, validateErr, strategy, defers, rcOpen, metadata,
                   tmp, resp, tempFiles>>

\* The upload failure returning nil, as the other failures do.
NilOnUploadError(o) == NilBytes

\* What the orchestrator returns beside the error when the upload fails.
OutOnUploadError(o) == o

\* thumbObj.NewWriter; wc.ObjectAttrs.Metadata = metadata; io.Copy(wc, out)
Upload(r) ==
    /\ pc[r] = "Upload"
    /\ \E ok \in BOOLEAN :
        /\ ops' = [ops EXCEPT ![r] = Append(@, Op("Upload", ok))]
        /\ IF ok
           THEN /\ pc' = [pc EXCEPT ![r] = "CloseWriter"]
                /\ UNCHANGED <<out, err>>
           ELSE ReturnWith(r, OutOnUploadError(cmdOut[r]), ThumbError("Copy", "err"))
    /\ UNCHANGED <<uri, parseErr, params, validateErr, strategy, defers, rcOpen, metadata,
                   tmp, cmdOut, resp, tempFiles>>

\* wc.Close(); generateThumbFromPipe then returns out, nil, and
\* generateThumbFromFile goes on to close the temporary file.
CloseWriter(r) ==
    /\ pc[r] = "CloseWriter"
    /\ \E ok \in BOOLEAN :
        /\ ops' = [ops EXCEPT ![r] = Append(@, Op("CloseWriter", ok))]
        /\ IF ~ok
           THEN ReturnWith(r, OutOnUploadError(cmdOut[r]), ThumbError("Close", "err"))
           ELSE IF strategy[r] = "file"
                THEN /\ pc' = [pc EXCEPT ![r] = "CloseTemp"]
                     /\ UNCHANGED <<out, err>>
                ELSE ReturnWith(r, cmdOut[r], NilErr)
    /\ UNCHANGED <<uri, parseErr, params, validateErr, strategy, defers, rcOpen, metadata,
                   tmp, cmdOut, resp, tempFiles>>

\* generateThumbFromFile: f.Close(), then return out, nil
CloseTemp(r) ==
    /\ pc[r] = "CloseTemp"
    /\ \E ok \in BOOLEAN :
        /\ ops' = [ops EXCEPT ![r] = Append(@, Op("CloseTemp", ok))]
        /\ ReturnWith(r, cmdOut[r], IF ok THEN NilErr ELSE ThumbError("CloseTemp", "err"))
    /\ UNCHANGED <<uri, parseErr, params, validateErr, strategy, defers, rcOpen, metadata,
                   tmp, cmdOut, resp, tempFiles>>

\* The orchestrator returns: its deferred calls run, last registered first.
\* os.Remove(f.Name()) removes the temporary file of this request.
Return(r) ==
    /\ pc[r] = "Return"
    /\ tempFiles' = IF \E i \in 1..Len(defers[r]) : defers[r][i] = "os.Remove"
                    THEN tempFiles \ {tmp[r]} ELSE tempFiles
    /\ rcOpen' = [rcOpen EXCEPT ![r] = FALSE]
    /\ defers' = [defers EXCEPT ![r] = <<>>]
    /\ pc' = [pc EXCEPT ![r] = "Respond"]
    /\ UNCHANGED <<uri, parseErr, params, validateErr, strategy, metadata, tmp, cmdOut,
                   out, err, resp, ops>>

(***************************************************************************)
(* thumbHandler after the orchestrator returned.                           *)
(***************************************************************************)
\* thumbHandler answering 500 to every failure but not-found.
RespondToAlways500(w, o, e) ==
    Write(IF e.isNil THEN w
          ELSE IF IsNotFound(e) THEN WriteHeader(w, StatusNotFound)
          ELSE WriteHeader(w, StatusInternalServerError),
          o.bytes)

\* if err != nil { if IsNotFound { 404 } else if out == nil { 500 } }; w.Write(out)
RespondTo(w, o, e) ==
    Write(IF e.isNil THEN w
          ELSE IF IsNotFound(e) THEN WriteHeader(w, StatusNotFound)
          ELSE IF o.nil THEN WriteHeader(w, StatusInternalServerError)
          ELSE w,
          o.bytes)

Respond(r) ==
    /\ pc[r] = "Respond"
    /\ resp' = [resp EXCEPT ![r] = RespondTo(@, out[r], err[r])]
    /\ pc' = [pc EXCEPT ![r] = "done"]
    /\ UNCHANGED <<uri, parseErr, params, validateErr, strategy, defers, rcOpen, metadata,
                   tmp, cmdOut, out, err, ops, tempFiles>>

\* The response is sent; the server's slot takes the next request.
Finish(r) ==
    /\ pc[r] = "done"
    /\ pc'          = [pc EXCEPT ![r] = "idle"]
    /\ uri'         = [uri EXCEPT ![r] = <<>>]
    /\ parseErr'    = [parseErr EXCEPT ![r] = NoError]
    /\ params'      = [params EXCEPT ![r] = ZeroParams]
    /\ validateErr' = [validateErr EXCEPT ![r] = NoError]
    /\ strategy'    = [strategy EXCEPT ![r] = "none"]
    /\ metadata'    = [metadata EXCEPT ![r] = "none"]
    /\ tmp'         = [tmp EXCEPT ![r] = NoTemp]
    /\ cmdOut'      = [cmdOut EXCEPT ![r] = NilBytes]
    /\ out'         = [out EXCEPT ![r] = NilBytes]
    /\ err'         = [err EXCEPT ![r] = NilErr]
    /\ resp'        = [resp EXCEPT ![r] = NewResponse]
    /\ ops'         = [ops EXCEPT ![r] = <<>>]
    /\ UNCHANGED <<defers, rcOpen, tempFiles>>

Step(r) ==
    \/ Receive(r)
    \/ HandlerEntry(r)
    \/ NewClient(r)
    \/ NewReader(r)
    \/ Attrs(r)
    \/ ReadAll(r)
    \/ CreateTemp(r)
    \/ CopyTemp(r)
    \/ Command(r)
    \/ Upload(r)
    \/ CloseWriter(r)
    \/ CloseTemp(r)
    \/ Return(r)
    \/ Respond(r)
    \/ Finish(r)

Next == \E r \in Requests : Step(r)

Spec == Init /\ [][Next]_vars

(***************************************************************************)
(* paramExtract and paramValidate on their own: one request whose URI is   *)
(* drawn from ParseURIs, taken through the entry of thumbHandler.          *)
(***************************************************************************)
InitParse ==
    /\ \E u \in ParseURIs : uri = [r \in Requests |-> IF r = "r1" THEN u ELSE <<>>]
    /\ pc          = [r \in Requests |-> IF r = "r1" THEN "received" ELSE "idle"]
    /\ parseErr    = [r \in Requests |-> NoError]
    /\ params      = [r \in Requests |-> ZeroParams]
    /\ validateErr = [r \in Requests |-> NoError]
    /\ strategy    = [r \in Requests |-> "none"]
    /\ defers      = [r \in Requests |-> <<>>]
    /\ rcOpen      = [r \in Requests |-> FALSE]
    /\ metadata    = [r \in Requests |-> "none"]
    /\ tmp         = [r \in Requests |-> NoTemp]
    /\ cmdOut      = [r \in Requests |-> NilBytes]
    /\ out         = [r \in Requests |-> NilBytes]
    /\ err         = [r \in Requests |-> NilErr]
    /\ resp        = [r \in Requests |-> NewResponse]
    /\ ops         = [r \in Requests |-> <<>>]
    /\ tempFiles   = {}

NextParse == \E r \in Requests : HandlerEntry(r)

SpecParse == InitParse /\ [][NextParse]_vars

(***************************************************************************)
(* Properties.                                                             *)
(***************************************************************************)
\* thumbHandler has run paramExtract on the request, which returned no error.
Parsed(r) == pc[r] \notin {"idle", "received"} /\ parseErr[r] = NoError

\* The request is in, or has been through, an orchestrator.
Entered(r) == strategy[r] # "none"

\* The orchestrator of the request has returned to thumbHandler.
Returned(r) == pc[r] \in {"Respond", "done"}

LastOp(r) == ops[r][Len(ops[r])]

\* The last collaborator call of the request is one of names, and it failed.
FailedAt(r, names) == ops[r] # <<>> /\ LastOp(r).op \in names /\ ~LastOp(r).ok

\* The value of a string of digits.
RECURSIVE NumValue(_)
NumValue(s) ==
    IF s = <<>> THEN 0
    ELSE 10 * NumValue(SubSeq(s, 1, Len(s) - 1)) + HexVal(s[Len(s)])

\* The compatibility matrix: an image to its own extension, a video to jpg.
InMatrix(p) ==
    \/ p.MediaType = MEDIA_IMAGE /\ p.FileExt \in ImageExts /\ p.ThumbExt = p.FileExt
    \/ p.MediaType = MEDIA_VIDEO /\ p.FileExt \in VideoExts /\ p.ThumbExt = E_jpg

\* C1: paramValidate is default-deny: a parsed request is accepted exactly
\* when it is an image whose target extension equals its source extension,
\* or a video whose target extension is jpg.
C1_DefaultDeny ==
    \A r \in Requests :
        Parsed(r) => (validateErr[r] = NoError <=> InMatrix(params[r]))

C3_BytesOnUploadError ==
    \A r \in Requests :
        FailedAt(r, {"Upload", "CloseWriter"})
            => /\ Returned(r) => out[r].bytes = cmdOut[r].bytes /\ ~err[r].isNil
               /\ pc[r] = "done" => resp[r].body = cmdOut[r].bytes

\* A file request whose upload failed after a non-empty output and a pipe
\* request whose close failed after an empty output, both answered.
C3_Witness ==
    \E r, q \in Requests :
        /\ pc[r] = "done" /\ strategy[r] = "file" /\ FailedAt(r, {"Upload"})
        /\ cmdOut[r].bytes # <<>> /\ resp[r].body = cmdOut[r].bytes
        /\ pc[q] = "done" /\ strategy[q] = "pipe" /\ FailedAt(q, {"CloseWriter"})
        /\ cmdOut[q].bytes = <<>>

\* Opening the source object reported that it does not exist.
SourceAbsent(r) == FailedAt(r, {"NewReader"}) /\ err[r].Err = "ErrObjectNotExist"

\* C4: when opening the source reports that it does not exist, the request
\* ends with status 404 and an empty body, and neither the metadata read, the
\* materialization, the tool nor the thumbnail write is performed.
C4_NotFound ==
    \A r \in Requests :
        SourceAbsent(r)
            => /\ ops[r] = <<Op("NewClient", TRUE), Op("NewReader", FALSE)>>
               /\ pc[r] \in {"Return", "Respond", "done"}
               /\ pc[r] = "done" => /\ resp[r].status = StatusNotFound
                                    /\ resp[r].body = <<>>

\* A file request and a pipe request, both answered after an absent source.
C4_Witness ==
    \E r, q \in Requests :
        /\ pc[r] = "done" /\ strategy[r] = "file" /\ SourceAbsent(r)
        /\ pc[q] = "done" /\ strategy[q] = "pipe" /\ SourceAbsent(q)

\* C5: a request that fails paramExtract or paramValidate is answered 400
\* with an empty body and never enters an orchestrator: no collaborator call,
\* no temporary file.
C5_BadRequest ==
    \A r \in Requests :
        (pc[r] \notin {"idle", "received"}
            /\ (parseErr[r] # NoError \/ validateErr[r] # NoError))
            => /\ pc[r] = "done"
               /\ resp[r].status = StatusBadRequest
               /\ resp[r].body = <<>>
               /\ ~Entered(r)
               /\ ops[r] = <<>>
               /\ tmp[r] = NoTemp
               /\ defers[r] = <<>>

\* One request rejected by paramExtract and one rejected by paramValidate.
C5_Witness ==
    \E r, q \in Requests :
        /\ pc[r] = "done" /\ parseErr[r] # NoError
        /\ pc[q] = "done" /\ parseErr[q] = NoError /\ validateErr[q] # NoError

\* The request created a temporary file and its orchestrator has not returned.
HoldsTemp(r) ==
    /\ tmp[r] # NoTemp
    /\ pc[r] \in {"CopyTemp", "Command", "Upload", "CloseWriter", "CloseTemp", "Return"}

\* C6: every temporary file belongs to exactly one request of the file
\* strategy whose orchestrator has not returned yet, and every such request
\* still has its file: a request's file is gone when its handling returns, on
\* every exit path, and no request removes another's file.
C6_TempScoped ==
    /\ \A n \in tempFiles : \E r \in Requests : HoldsTemp(r) /\ tmp[r] = n
    /\ \A r \in Requests : HoldsTemp(r) => tmp[r] \in tempFiles /\ strategy[r] = "file"
    /\ \A r, q \in Requests : (HoldsTemp(r) /\ HoldsTemp(q) /\ r # q) => tmp[r] # tmp[q]
    /\ \A r \in Requests : (Returned(r) /\ tmp[r] # NoTemp)
            => \/ tmp[r] \notin tempFiles
               \/ \E q \in Requests \ {r} : HoldsTemp(q) /\ tmp[q] = tmp[r]

\* A request that returned after a failed copy, its file removed, while the
\* file of another request that is still running exists.
C6_Witness ==
    \E r, q \in Requests :
        /\ pc[r] = "done" /\ FailedAt(r, {"CopyTemp"}) /\ tmp[r] \notin tempFiles
        /\ HoldsTemp(q) /\ pc[q] = "Upload" /\ tmp[q] \in tempFiles

\* C7 as stated: a parsed request with an empty target extension is rejected
\* with the unsupported-target reason, whatever its source.
C7_EmptyTargetIsUnsupportedTarget ==
    \A r \in Requests :
        (Parsed(r) /\ params[r].ThumbExt = <<>>) => validateErr[r] = ErrUnsupportedDst

\* C7 as amended: a parsed request with an empty target extension is rejected
\* with the unsupported-target reason when its source is an image or a video,
\* and with the unsupported-source reason when its media type is unknown.
C7_EmptyTargetByMediaType ==
    \A r \in Requests :
        (Parsed(r) /\ params[r].ThumbExt = <<>>)
            => validateErr[r] = IF params[r].MediaType = MEDIA_UNKNOWN
                                THEN ErrUnsupportedSrc ELSE ErrUnsupportedDst

\* A video with an empty target extension, rejected for its target.
C7_Witness ==
    \E r \in Requests :
        /\ Parsed(r) /\ params[r].ThumbExt = <<>>
        /\ params[r].MediaType = MEDIA_VIDEO
        /\ validateErr[r] = ErrUnsupportedDst

\* C8: every ThumbParams paramExtract returns has a Width that is a non-empty
\* string of digits denoting a positive integer, and non-empty Bucket,
\* FilePath and ThumbPath.
C8_PositiveWidth ==
    \A r \in Requests :
        Parsed(r)
            => /\ params[r].Width # <<>>
               /\ \A i \in 1..Len(params[r].Width) : params[r].Width[i] \in Digits
               /\ NumValue(params[r].Width) > 0
               /\ params[r].Bucket # <<>>
               /\ params[r].FilePath # <<>>
               /\ params[r].ThumbPath # <<>>

\* The place of a collaborator operation in the orchestrator's order:
\* open-source-read, read-source-metadata, materialize-source-bytes,
\* run-external-tool, write-thumbnail, close-thumbnail-write.
StepOf(op) ==
    CASE op = "NewReader" -> 1
      [] op = "Attrs" -> 2
      [] op \in {"ReadAll", "CreateTemp", "CopyTemp"} -> 3
      [] op = "Command" -> 4
      [] op = "Upload" -> 5
      [] op = "CloseWriter" -> 6

IsCollaboratorOp(e) == e.op \notin {"NewClient", "CloseTemp"}

CollaboratorOps(r) == SelectSeq(ops[r], IsCollaboratorOp)

\* The position of a request in thumbHandler, as a count of steps taken.
Rank(p) ==
    CASE p = "idle" -> 0 [] p = "received" -> 1 [] p = "NewClient" -> 2
      [] p = "NewReader" -> 3 [] p = "Attrs" -> 4
      [] p \in {"ReadAll", "CreateTemp"} -> 5 [] p = "CopyTemp" -> 6
      [] p = "Command" -> 7 [] p = "Upload" -> 8 [] p = "CloseWriter" -> 9
      [] p = "CloseTemp" -> 10 [] p = "Return" -> 11 [] p = "Respond" -> 12
      [] p = "done" -> 13

C9_Order ==
    \A r \in Requests :
        /\ \A i, j \in 1..Len(ops[r]) : i # j => ops[r][i].op # ops[r][j].op
        /\ \A i \in 1..(Len(ops[r]) - 1) : ops[r][i].ok
        /\ FailedAt(r, {"NewClient", "NewReader", "Attrs", "ReadAll", "CreateTemp",
                        "CopyTemp", "Command", "Upload", "CloseWriter", "CloseTemp"})
                => pc[r] \in {"Return", "Respond", "done"}
        /\ CollaboratorOps(r) # <<>> => StepOf(CollaboratorOps(r)[1].op) = 1
        /\ \A i \in 1..(Len(CollaboratorOps(r)) - 1) :
                /\ StepOf(CollaboratorOps(r)[i].op) <= StepOf(CollaboratorOps(r)[i + 1].op)
                /\ StepOf(CollaboratorOps(r)[i + 1].op) <= StepOf(CollaboratorOps(r)[i].op) + 1
        /\ pc[r] \notin {"idle", "done"} => ENABLED Step(r)
        /\ pc[r] = "done" => resp[r].wroteHeader

C9_Progress ==
    \A r \in Requests :
        /\ pc'[r] # pc[r] => (Rank(pc'[r]) > Rank(pc[r]) \/ pc[r] = "done")
        /\ ops'[r] # ops[r] => pc'[r] # pc[r]
        /\ resp[r].wroteHeader => (resp'[r] = resp[r] \/ pc'[r] = "idle")

\* C9: within one request the collaborator operations occur in the fixed
\* order, each at most once, a step only after every earlier one succeeded,
\* and the first failing step ends the request; a request that is not
\* answered can always take a step, every step moves it forward, and its
\* response, once written, does not change: it reaches a single response
\* after finitely many steps.
C9_OrderedOnceTerminating == []C9_Order /\ [][C9_Progress]_vars

\* A pipe request answered after all six steps succeeded, and a file request
\* answered after its metadata read failed.
C9_Witness ==
    \E r, q \in Requests :
        /\ pc[r] = "done" /\ strategy[r] = "pipe" /\ err[r].isNil
        /\ Len(CollaboratorOps(r)) = 6
        /\ pc[q] = "done" /\ strategy[q] = "file" /\ FailedAt(q, {"Attrs"})

\* C10: an orchestrator is entered only with media type image or video, so
\* the no-handler branch of generateThumbFromPipe is never taken; and a
\* request goes to generateThumbFromFile exactly when its source extension is
\* mp4, which is a video.
C10_NoHandlerUnreachable ==
    \A r \in Requests :
        Entered(r)
            => /\ params[r].MediaType \in {MEDIA_IMAGE, MEDIA_VIDEO}
               /\ ToolOf(strategy[r], params[r]) # "none"
               /\ err[r].Ctx # "NoHandler"
               /\ strategy[r] = "file" <=> params[r].FileExt = E_mp4
               /\ params[r].FileExt = E_mp4 => params[r].MediaType = MEDIA_VIDEO

\* A file request and a pipe request, both past the run of their tool.
C10_Witness ==
    \E r, q \in Requests :
        /\ strategy[r] = "file" /\ pc[r] = "Upload"
        /\ strategy[q] = "pipe" /\ pc[q] = "Upload"
        /\ params[q].MediaType = MEDIA_IMAGE

====
